---- MODULE Spec2Model ----
(***************************************************************************)
(* The expense tracker of app.py as a state machine: the two tables        *)
(* (users, expenses) held by the one shared SQLAlchemy session, the login  *)
(* cookies, the two chart files under static/, and one action per route.   *)
(*                                                                         *)
(* Text (category, date and amount form fields, month labels) is a         *)
(* sequence of character codes, so that SQLite's BINARY collation is the   *)
(* lexicographic order of the sequences.  An amount is an IEEE-754         *)
(* binary64 value (Column(Float), Python float), held exactly as an        *)
(* integer number of units of 2^-56 written in limbs of 20 bits, least     *)
(* significant first.                                                      *)
(***************************************************************************)
EXTENDS Integers, Sequences, FiniteSets, TLC

(***************************************************************************)
(* Text                                                                    *)
(***************************************************************************)
IsDigit(c) == c >= 48 /\ c <= 57

AllDigits(s) == \A i \in 1..Len(s) : IsDigit(s[i])

RECURSIVE DigitsValue(_)
DigitsValue(s) ==
    IF s = <<>> THEN 0
    ELSE 10 * DigitsValue(SubSeq(s, 1, Len(s) - 1)) + (s[Len(s)] - 48)

\* memcmp order of two texts (SQLite's BINARY collation)
RECURSIVE TextLess(_, _)
TextLess(a, b) ==
    IF b = <<>> THEN FALSE
    ELSE IF a = <<>> THEN TRUE
    ELSE IF a[1] # b[1] THEN a[1] < b[1]
    ELSE TextLess(Tail(a), Tail(b))

\* the positions of character c in s
Positions(s, c) == {i \in 1..Len(s) : s[i] = c}

RECURSIVE Pad(_, _)
Pad(n, width) ==
    IF width = 0 THEN <<>>
    ELSE Pad(n \div 10, width - 1) \o <<48 + (n % 10)>>

(***************************************************************************)
(* binary64 arithmetic on non-negative values below 2^16                   *)
(***************************************************************************)
LimbBase == 2^20

Zero == <<0, 0, 0, 0>>

RECURSIVE BitLen(_)
BitLen(n) == IF n = 0 THEN 0 ELSE 1 + BitLen(n \div 2)

RECURSIVE AddFrom(_, _, _, _)
AddFrom(a, b, i, carry) ==
    IF i > Len(a) THEN <<>>
    ELSE LET s == a[i] + b[i] + carry
         IN  <<s % LimbBase>> \o AddFrom(a, b, i + 1, s \div LimbBase)

\* the exact sum of two limb numbers
BigAdd(a, b) == AddFrom(a, b, 1, 0)

BigBitLen(a) ==
    IF a = Zero THEN 0
    ELSE LET top == CHOOSE i \in 1..Len(a) :
                        a[i] # 0 /\ \A j \in (i + 1)..Len(a) : a[j] = 0
         IN  20 * (top - 1) + BitLen(a[top])

\* a rounded to 53 significant bits, to nearest, ties to even; sticky says
\* that the exact value lies strictly above a
RoundNearestEven(a, sticky) ==
    LET k == BigBitLen(a) - 53
    IN  IF k <= 0
        THEN a
        ELSE LET q       == 2^k
                 r       == a[1] % q
                 half    == q \div 2
                 trunc   == [a EXCEPT ![1] = a[1] - r]
                 odd     == IF k < 20 THEN (a[1] \div q) % 2 = 1
                                      ELSE a[2] % 2 = 1
                 ulp     == IF k < 20 THEN <<q, 0, 0, 0>> ELSE <<0, 1, 0, 0>>
                 roundUp == \/ r > half
                            \/ r = half /\ sticky
                            \/ r = half /\ ~sticky /\ odd
             IN  IF roundUp THEN BigAdd(trunc, ulp) ELSE trunc

\* float + float: the exact sum, correctly rounded
FloatAdd(a, b) == RoundNearestEven(BigAdd(a, b), FALSE)

\* n * 2^56 as a limb number (n < 2^14)
Shift56(n) == <<0, 0, (n * 2^16) % LimbBase, (n * 2^16) \div LimbBase>>

\* quotient limbs and remainder of a limb number by a small divisor,
\* long division from the most significant limb down
RECURSIVE DivFrom(_, _, _, _)
DivFrom(a, d, i, rem) ==
    IF i = 0 THEN [quot |-> <<>>, rem |-> rem]
    ELSE LET cur  == rem * LimbBase + a[i]
             rest == DivFrom(a, d, i - 1, cur % d)
         IN  [quot |-> rest.quot \o <<cur \div d>>, rem |-> rest.rem]

BigDiv(a, d) == DivFrom(a, d, Len(a), 0)

\* float(text) for a plain decimal literal: digits, optionally a point and
\* more digits; anything else raises ValueError (ok = FALSE).  The value is
\* the literal's quotient in units of 2^-56, correctly rounded.
ParseFloat(s) ==
    LET dots   == Positions(s, 46)
        dot    == IF dots = {} THEN Len(s) + 1 ELSE CHOOSE i \in dots : TRUE
        whole  == SubSeq(s, 1, dot - 1)
        frac   == SubSeq(s, dot + 1, Len(s))
        digits == whole \o frac
        d      == 10^Len(frac)
        qr     == BigDiv(Shift56(DigitsValue(digits)), d)
        atUnit == \/ 2 * qr.rem > d
                  \/ 2 * qr.rem = d /\ qr.quot[1] % 2 = 1
    IN  IF Cardinality(dots) > 1 \/ digits = <<>> \/ ~AllDigits(digits)
        THEN [ok |-> FALSE, value |-> Zero]
        ELSE [ok |-> TRUE,
              value |-> IF BigBitLen(qr.quot) > 53
                        THEN RoundNearestEven(qr.quot, qr.rem # 0)
                        ELSE IF atUnit THEN BigAdd(qr.quot, <<1, 0, 0, 0>>)
                        ELSE qr.quot]

(***************************************************************************)
(* Dates                                                                   *)
(***************************************************************************)
IsLeap(y) == (y % 4 = 0 /\ y % 100 # 0) \/ y % 400 = 0

DaysInMonth(y, m) ==
    IF m = 2 THEN (IF IsLeap(y) THEN 29 ELSE 28)
    ELSE IF m \in {4, 6, 9, 11} THEN 30 ELSE 31

NoDate == [year |-> 0, month |-> 0, day |-> 0]

\* datetime.strptime(text, '%Y-%m-%d').date(): a four-digit year, a month
\* and a day of one or two digits, a date of the calendar; anything else
\* raises ValueError (ok = FALSE)
ParseDate(s) ==
    LET dashes == Positions(s, 45)
        p1     == CHOOSE i \in dashes : \A j \in dashes : i <= j
        p2     == CHOOSE i \in dashes : \A j \in dashes : j <= i
        ys     == SubSeq(s, 1, p1 - 1)
        ms     == SubSeq(s, p1 + 1, p2 - 1)
        ds     == SubSeq(s, p2 + 1, Len(s))
        y      == DigitsValue(ys)
        m      == DigitsValue(ms)
        d      == DigitsValue(ds)
        shape  == /\ Cardinality(dashes) = 2
                  /\ Len(ys) = 4 /\ Len(ms) \in {1, 2} /\ Len(ds) \in {1, 2}
                  /\ AllDigits(ys) /\ AllDigits(ms) /\ AllDigits(ds)
    IN  IF shape /\ y >= 1 /\ m \in 1..12 /\ d >= 1 /\ d <= DaysInMonth(y, m)
        THEN [ok |-> TRUE, value |-> [year |-> y, month |-> m, day |-> d]]
        ELSE [ok |-> FALSE, value |-> NoDate]

\* SQLite's strftime('%Y-%m', date) of a stored date: YYYY-MM
StrftimeYM(date) == Pad(date.year, 4) \o <<45>> \o Pad(date.month, 2)

(***************************************************************************)
(* Request inputs                                                          *)
(***************************************************************************)
\* rows the expenses table may hold before add_expense is no longer tried
MaxExpenses == 2

\* rows of the tables the dashboard is run on
MaxRows == 3

Usernames == {"alice", "bob"}

Passwords == {"pw1", "pw2"}

\* bcrypt.gensalt() draws the salt
Salts == {"saltA", "saltB"}

Food      == <<70, 111, 111, 100>>          \* "Food"
FoodLower == <<102, 111, 111, 100>>         \* "food"
FoodSpace == <<70, 111, 111, 100, 32>>      \* "Food "

Jan05 == <<50, 48, 50, 52, 45, 48, 49, 45, 48, 53>>     \* "2024-01-05"
Jan20 == <<50, 48, 50, 52, 45, 48, 49, 45, 50, 48>>     \* "2024-01-20"
Dec31 == <<50, 48, 50, 51, 45, 49, 50, 45, 51, 49>>     \* "2023-12-31"
Feb01 == <<50, 48, 50, 52, 45, 48, 50, 45, 48, 49>>     \* "2024-02-01"
Feb30 == <<50, 48, 50, 52, 45, 48, 50, 45, 51, 48>>     \* "2024-02-30"

\* the add/edit form posts that parse: amounts "0.2", "0.1", "0.3", "10"
LunchA == [category |-> Food,      amount |-> <<48, 46, 50>>, date |-> Jan05, description |-> "lunch"]
LunchB == [category |-> FoodLower, amount |-> <<48, 46, 49>>, date |-> Jan20, description |-> "lunch"]
Dinner == [category |-> Food,      amount |-> <<48, 46, 51>>, date |-> Dec31, description |-> ""]
Picnic == [category |-> FoodSpace, amount |-> <<49, 48>>,     date |-> Feb01, description |-> ""]

\* and two that do not: the amount "abc", the date 30 February
BadAmount == [category |-> Food, amount |-> <<97, 98, 99>>, date |-> Jan05, description |-> "lunch"]
BadDate   == [category |-> Food, amount |-> <<48, 46, 50>>, date |-> Feb30, description |-> "lunch"]

\* a GET carries no form
NoForm == [category |-> <<>>, amount |-> <<>>, date |-> <<>>, description |-> ""]

ValidForms == {LunchA, LunchB, Dinner, Picnic}

\* the forms posted while the tables are built and changed
ExpenseForms == {LunchA, LunchB, BadAmount, BadDate}

\* the ids a request path can name: every id a row can have, and one more
ExpenseIds == 1..(MaxExpenses + 1)

RowIds == 1..(MaxRows + 1)

(***************************************************************************)
(* State                                                                   *)
(***************************************************************************)
VARIABLES
    users,      \* table users: rows [id, username, hashed_password]
    expenses,   \* table expenses as the shared session reads it: rows
                \* [id, user_id, category, amount, date, description]
    sessions,   \* the user ids that a browser's login cookie holds
    files,      \* the chart images under static/, by path
    resp        \* the response to the last request

vars == <<users, expenses, sessions, files, resp>>

TrendsPath == "static/monthly_trends.png"
PiePath    == "static/category_pie.png"
None       == "None"

NoFile == [exists |-> FALSE, labels |-> <<>>, values |-> <<>>]

\* plt.savefig of a chart drawn from labels and values
Chart(labels, values) == [exists |-> TRUE, labels |-> labels, values |-> values]

\* a response that carries no dashboard page; user is current_user's id,
\* 0 when the route does not ask for one
Response(route, user, status, flash, target) ==
    [route |-> route, user |-> user, status |-> status, flash |-> flash,
     target |-> target, expenses |-> <<>>, monthly_totals |-> <<>>,
     category_totals |-> <<>>, trends_img |-> None, pie_img |-> None]

\* an unhandled exception: Flask answers 500
ServerError(route, user) == Response(route, user, 500, "", "")

NoFiles == [p \in {TrendsPath, PiePath} |-> NoFile]

Init ==
    /\ users = {}
    /\ expenses = {}
    /\ sessions = {}
    /\ files = NoFiles
    /\ resp = Response("", 0, 0, "", "")

(***************************************************************************)
(* Tables                                                                  *)
(***************************************************************************)
\* SQLite's rowid for an INTEGER PRIMARY KEY insert: one past the largest
NextRowid(table) ==
    IF table = {} THEN 1
    ELSE 1 + (CHOOSE n \in {r.id : r \in table} : \A r \in table : r.id <= n)

\* the rows of a table in rowid order (a table scan)
RECURSIVE Scan(_)
Scan(table) ==
    IF table = {} THEN <<>>
    ELSE LET first == CHOOSE r \in table : \A q \in table : r.id <= q.id
         IN  <<first>> \o Scan(table \ {first})

\* session.query(Expense).filter_by(user_id = uid).all()
UserExpenses(uid) == SelectSeq(Scan(expenses), LAMBDA r : r.user_id = uid)

\* (faulty variant: the lookup without its user_id filter)
OwnExpenseById(eid, uid) == {r \in expenses : r.id = eid}

\* session.query(Expense).filter_by(id = eid, user_id = uid).first()
OwnExpense(eid, uid) == {r \in expenses : r.id = eid /\ r.user_id = uid}

\* (faulty variant: the lookup that never finds the name)
UserNamedNever(username) == {}

\* session.query(User).filter_by(username = username).first()
UserNamed(username) == {u \in users : u.username = username}

\* bcrypt.hashpw(password, salt): the salt and the digest it keys
HashPassword(password, salt) == [salt |-> salt, digest |-> <<salt, password>>]

\* bcrypt.checkpw: hash the offered password with the stored salt, compare
CheckPassword(hashed, password) == hashed.digest = <<hashed.salt, password>>

\* User(username = ..., hashed_password = ...) as session.add inserts it
NewUser(username, password, salt) ==
    [id |-> NextRowid(users), username |-> username,
     hashed_password |-> HashPassword(password, salt)]

\* (faulty variants: the row's own id, or the next user's id, as user_id)
AddedRowByRowid(id, uid, form) ==
    [id |-> id, user_id |-> id, category |-> form.category,
     amount |-> ParseFloat(form.amount).value,
     date |-> ParseDate(form.date).value, description |-> form.description]

AddedRowNextUser(id, uid, form) ==
    [id |-> id, user_id |-> uid + 1, category |-> form.category,
     amount |-> ParseFloat(form.amount).value,
     date |-> ParseDate(form.date).value, description |-> form.description]

\* Expense(user_id = current_user.id, ...) as session.add inserts it
AddedRow(id, uid, form) ==
    [id |-> id, user_id |-> uid, category |-> form.category,
     amount |-> ParseFloat(form.amount).value,
     date |-> ParseDate(form.date).value, description |-> form.description]

(***************************************************************************)
(* Aggregation: SELECT key, sum(amount) ... WHERE user_id = ? GROUP BY key *)
(***************************************************************************)
\* one more row of a group-by: its amount joins its key's running sum; the
\* groups are kept in key order (SQLite's temporary B-tree for GROUP BY)
RECURSIVE Accumulate(_, _, _)
Accumulate(groups, key, amount) ==
    IF groups = <<>> THEN <<[label |-> key, total |-> amount]>>
    ELSE IF groups[1].label = key
         THEN <<[label |-> key, total |-> FloatAdd(groups[1].total, amount)]>>
              \o Tail(groups)
    ELSE IF TextLess(key, groups[1].label)
         THEN <<[label |-> key, total |-> amount]>> \o groups
    ELSE <<groups[1]>> \o Accumulate(Tail(groups), key, amount)

\* the groups of a sequence of [key, amount] rows
RECURSIVE GroupSum(_)
GroupSum(rows) ==
    IF rows = <<>> THEN <<>>
    ELSE LET last == rows[Len(rows)]
         IN  Accumulate(GroupSum(SubSeq(rows, 1, Len(rows) - 1)),
                        last.key, last.amount)

\* func.strftime('%Y-%m', Expense.date)
MonthKey(r) == StrftimeYM(r.date)

\* Expense.category
CategoryKey(r) == r.category

\* .filter(Expense.user_id == current_user.id)
Selected(r, uid) == r.user_id = uid

MonthlyTotals(uid) ==
    LET rows == SelectSeq(Scan(expenses), LAMBDA r : Selected(r, uid))
    IN  GroupSum([i \in 1..Len(rows) |->
                    [key |-> MonthKey(rows[i]), amount |-> rows[i].amount]])

CategoryTotals(uid) ==
    LET rows == SelectSeq(Scan(expenses), LAMBDA r : Selected(r, uid))
    IN  GroupSum([i \in 1..Len(rows) |->
                    [key |-> CategoryKey(rows[i]), amount |-> rows[i].amount]])

Labels(groups) == [i \in 1..Len(groups) |-> groups[i].label]

Totals(groups) == [i \in 1..Len(groups) |-> groups[i].total]

\* (faulty variant: the pie chart drawn without the test)
PieDrawnAlways(category_totals) == TRUE

\* if category_totals: the pie chart is drawn and saved
PieDrawn(category_totals) == category_totals # <<>>

(***************************************************************************)
(* Routes                                                                  *)
(***************************************************************************)
\* @app.route('/')
Home ==
    /\ resp' = Response("home", 0, 302, "", "login")
    /\ UNCHANGED <<users, expenses, sessions, files>>

\* @app.route('/register')
Register(method, username, password, salt) ==
    /\ IF method = "POST"
       THEN IF UserNamed(username) # {}
            THEN /\ resp' = Response("register", 0, 302,
                                     "Username already exists.", "register")
                 /\ UNCHANGED users
            ELSE /\ users' = users \cup {NewUser(username, password, salt)}
                 /\ resp' = Response("register", 0, 302,
                                     "Registration successful! Please log in.",
                                     "login")
       ELSE /\ resp' = Response("register", 0, 200, "", "register.html")
            /\ UNCHANGED users
    /\ UNCHANGED <<expenses, sessions, files>>

\* @app.route('/login')
Login(method, username, password) ==
    /\ IF method = "POST"
       THEN LET found == UserNamed(username)
                user  == CHOOSE u \in found : TRUE
            IN  IF found # {} /\ CheckPassword(user.hashed_password, password)
                THEN /\ sessions' = sessions \cup {user.id}
                     /\ resp' = Response("login", user.id, 302, "", "dashboard")
                ELSE /\ resp' = Response("login", 0, 200,
                                         "Invalid username or password.",
                                         "login.html")
                     /\ UNCHANGED sessions
       ELSE /\ resp' = Response("login", 0, 200, "", "login.html")
            /\ UNCHANGED sessions
    /\ UNCHANGED <<users, expenses, files>>

\* @login_required on a request whose cookie names no user: Flask-Login
\* sends the browser to login_view
Unauthorized ==
    /\ resp' = Response("login_required", 0, 302,
                        "Please log in to access this page.", "login")
    /\ UNCHANGED <<users, expenses, sessions, files>>

\* @app.route('/logout')
Logout(uid) ==
    /\ uid \in sessions
    /\ sessions' = sessions \ {uid}
    /\ resp' = Response("logout", uid, 302, "", "login")
    /\ UNCHANGED <<users, expenses, files>>

\* @app.route('/dashboard')
Dashboard(uid) ==
    /\ uid \in sessions
    /\ LET monthly_totals  == MonthlyTotals(uid)
           category_totals == CategoryTotals(uid)
           pie_path        == IF PieDrawn(category_totals) THEN PiePath ELSE None
       IN  /\ files' =
                 [p \in DOMAIN files |->
                    IF p = TrendsPath
                    THEN Chart(Labels(monthly_totals), Totals(monthly_totals))
                    ELSE IF p = pie_path
                    THEN Chart(Labels(category_totals), Totals(category_totals))
                    ELSE files[p]]
           /\ resp' = [route |-> "dashboard", user |-> uid, status |-> 200,
                       flash |-> "", target |-> "dashboard.html",
                       expenses |-> UserExpenses(uid),
                       monthly_totals |-> monthly_totals,
                       category_totals |-> category_totals,
                       trends_img |-> TrendsPath,
                       pie_img |-> IF pie_path # None THEN PiePath ELSE None]
    /\ UNCHANGED <<users, expenses, sessions>>

\* @app.route('/add_expense')
AddExpense(uid, method, form) ==
    /\ uid \in sessions
    /\ IF method = "POST"
       THEN IF ~ParseFloat(form.amount).ok \/ ~ParseDate(form.date).ok
            THEN /\ resp' = ServerError("add_expense", uid)
                 /\ UNCHANGED expenses
            ELSE /\ Cardinality(expenses) < MaxExpenses
                 /\ expenses' = expenses \cup
                        {AddedRow(NextRowid(expenses), uid, form)}
                 /\ resp' = Response("add_expense", uid, 302,
                                     "Expense added successfully!", "dashboard")
       ELSE /\ resp' = Response("add_expense", uid, 200, "", "add_expense.html")
            /\ UNCHANGED expenses
    /\ UNCHANGED <<users, sessions, files>>

\* the assignments of an edit POST to the row, in the handler's order, up
\* to the first field that does not parse
Edited(row, form) ==
    LET amount == ParseFloat(form.amount)
        date   == ParseDate(form.date)
        r1     == [row EXCEPT !.category = form.category]
        r2     == [r1 EXCEPT !.amount = amount.value]
        r3     == [r2 EXCEPT !.date = date.value]
    IN  IF ~amount.ok THEN r1
        ELSE IF ~date.ok THEN r2
        ELSE [r3 EXCEPT !.description = form.description]

\* (faulty variant: the assignments reach every row of the owner)
EditedTableOfUser(table, expense, form) ==
    {IF r.user_id = expense.user_id THEN Edited(r, form) ELSE r : r \in table}

\* the table once the session has flushed the edited row
EditedTable(table, expense, form) ==
    (table \ {expense}) \cup {Edited(expense, form)}

\* @app.route('/edit_expense/<int:expense_id>')
EditExpense(uid, expense_id, method, form) ==
    /\ uid \in sessions
    /\ LET found   == OwnExpense(expense_id, uid)
           expense == CHOOSE r \in found : TRUE
       IN  IF found = {}
           THEN /\ resp' = Response("edit_expense", uid, 302,
                                    "Expense not found.", "dashboard")
                /\ UNCHANGED expenses
           ELSE IF method = "POST"
           THEN /\ expenses' = EditedTable(expenses, expense, form)
                /\ resp' = IF ParseFloat(form.amount).ok /\ ParseDate(form.date).ok
                           THEN Response("edit_expense", uid, 302,
                                         "Expense updated successfully!",
                                         "dashboard")
                           ELSE ServerError("edit_expense", uid)
           ELSE /\ resp' = Response("edit_expense", uid, 200, "",
                                    "edit_expense.html")
                /\ UNCHANGED expenses
    /\ UNCHANGED <<users, sessions, files>>

\* @app.route('/delete_expense/<int:expense_id>')
DeleteExpense(uid, expense_id) ==
    /\ uid \in sessions
    /\ LET found == OwnExpense(expense_id, uid)
       IN  IF found = {}
           THEN /\ resp' = Response("delete_expense", uid, 302,
                                    "Expense not found.", "dashboard")
                /\ UNCHANGED expenses
           ELSE /\ expenses' = expenses \ found
                /\ resp' = Response("delete_expense", uid, 302,
                                    "Expense deleted successfully!", "dashboard")
    /\ UNCHANGED <<users, sessions, files>>

UserIds == {u.id : u \in users}

(***************************************************************************)
(* Spec: the accounts and the expenses table under every request but the   *)
(* dashboard's, from the empty database.  alice registers with pw1 and bob *)
(* with pw2; logins are tried with either password.                        *)
(***************************************************************************)
Next ==
    \/ Home
    \/ Register("GET", "", "", "")
    \/ Register("POST", "alice", "pw1", "saltA")
    \/ Register("POST", "bob", "pw2", "saltA")
    \/ Login("GET", "", "")
    \/ \E n \in Usernames, p \in Passwords : Login("POST", n, p)
    \/ Unauthorized
    \/ \E u \in UserIds : Logout(u)
    \/ \E u \in UserIds : AddExpense(u, "GET", NoForm)
    \/ \E u \in UserIds, f \in ExpenseForms : AddExpense(u, "POST", f)
    \/ \E u \in UserIds, e \in ExpenseIds : EditExpense(u, e, "GET", NoForm)
    \/ \E u \in UserIds, e \in ExpenseIds, f \in ExpenseForms :
          EditExpense(u, e, "POST", f)
    \/ \E u \in UserIds, e \in ExpenseIds : DeleteExpense(u, e)

Spec == Init /\ [][Next]_vars

(***************************************************************************)
(* SpecAuth: registration and login alone, every username with every       *)
(* password and salt.                                                      *)
(***************************************************************************)
NextAuth ==
    \/ Home
    \/ Register("GET", "", "", "")
    \/ \E n \in Usernames, p \in Passwords, s \in Salts :
          Register("POST", n, p, s)
    \/ Login("GET", "", "")
    \/ \E n \in Usernames, p \in Passwords : Login("POST", n, p)
    \/ Unauthorized
    \/ \E u \in UserIds : Logout(u)

SpecAuth == Init /\ [][NextAuth]_vars

(***************************************************************************)
(* SpecDash: the dashboard over a table that add_expense has filled: alice *)
(* (id 1) and bob (id 2) are registered and logged in, each row was posted *)
(* by one of them from a form that parses.  Either user loads the          *)
(* dashboard or deletes a row, in any order.                               *)
(***************************************************************************)
FilledTables ==
    UNION { { {AddedRow(i, t[i][1], t[i][2]) : i \in 1..n} :
                t \in [1..n -> {1, 2} \X ValidForms] } : n \in 0..MaxRows }

InitDash ==
    /\ users = { [id |-> 1, username |-> "alice",
                  hashed_password |-> HashPassword("pw1", "saltA")],
                 [id |-> 2, username |-> "bob",
                  hashed_password |-> HashPassword("pw2", "saltA")] }
    /\ expenses \in FilledTables
    /\ sessions = {1, 2}
    /\ files = NoFiles
    /\ resp = Response("", 0, 0, "", "")

NextDash ==
    \/ \E u \in UserIds : Dashboard(u)
    \/ \E u \in UserIds, e \in RowIds : DeleteExpense(u, e)

SpecDash == InitDash /\ [][NextDash]_vars

(***************************************************************************)
(* Properties of the dashboard (checked under SpecDash).  After a          *)
(* dashboard request resp is the page just rendered and expenses is the    *)
(* table it was computed from.                                             *)
(***************************************************************************)
\* the rows whose user_id is uid
RowsOf(uid) == {r \in expenses : r.user_id = uid}

\* the amounts of a set of rows, in id order
RECURSIVE AmountsOf(_)
AmountsOf(rows) ==
    IF rows = {} THEN <<>>
    ELSE LET r == CHOOSE r \in rows : \A q \in rows : r.id <= q.id
         IN  <<r.amount>> \o AmountsOf(rows \ {r})

\* the sum of a sequence of values in exact arithmetic
RECURSIVE ExactSum(_)
ExactSum(values) ==
    IF values = <<>> THEN Zero
    ELSE BigAdd(ExactSum(SubSeq(values, 1, Len(values) - 1)), values[Len(values)])

\* the sum of a sequence of values in binary64 arithmetic, left to right
RECURSIVE FloatSum(_)
FloatSum(values) ==
    IF values = <<>> THEN Zero
    ELSE FloatAdd(FloatSum(SubSeq(values, 1, Len(values) - 1)), values[Len(values)])

PageTotals(pairs) == [i \in 1..Len(pairs) |-> pairs[i].total]

\* the three sums of the conservation law agree under a way of adding
Conserved(Sum(_)) ==
    /\ Sum(PageTotals(resp.monthly_totals)) = Sum(PageTotals(resp.category_totals))
    /\ Sum(PageTotals(resp.monthly_totals)) = Sum(AmountsOf(RowsOf(resp.user)))

\* C1: on every dashboard page of a user u, the sum of the monthly totals
\* equals the sum of the category totals, and both equal the sum of the
\* amounts of exactly the expenses whose user_id is u.  The sums are taken
\* in exact arithmetic or, if that is more favourable, in binary64
\* arithmetic in the order of the sequences.
ConservationLaw ==
    resp.route = "dashboard" => Conserved(ExactSum) \/ Conserved(FloatSum)

\* the (year, month) a label YYYY-MM names
LabelMonth(label) ==
    <<DigitsValue(SubSeq(label, 1, 4)), DigitsValue(SubSeq(label, 6, 7))>>

IsMonthLabel(label) ==
    /\ Len(label) = 7
    /\ label[5] = 45
    /\ \A i \in {1, 2, 3, 4, 6, 7} : IsDigit(label[i])
    /\ LabelMonth(label)[2] \in 1..12

MonthBefore(a, b) == a[1] < b[1] \/ (a[1] = b[1] /\ a[2] < b[2])

MonthsOf(uid) == {<<r.date.year, r.date.month>> : r \in RowsOf(uid)}

\* one pair per distinct month of the user's dates, labelled YYYY-MM, in
\* ascending order of month
MonthlyPairsPerMonth ==
    resp.route = "dashboard" =>
        LET pairs == resp.monthly_totals
        IN  /\ Len(pairs) = Cardinality(MonthsOf(resp.user))
            /\ \A i \in 1..Len(pairs) :
                  /\ IsMonthLabel(pairs[i].label)
                  /\ LabelMonth(pairs[i].label) \in MonthsOf(resp.user)
            /\ \A i, j \in 1..Len(pairs) :
                  i < j => MonthBefore(LabelMonth(pairs[i].label),
                                       LabelMonth(pairs[j].label))

\* every monthly total is the sum, under a way of adding, of the amounts of
\* the user's expenses of that month
MonthlyTotalsSum(Sum(_)) ==
    resp.route = "dashboard" =>
        \A i \in 1..Len(resp.monthly_totals) :
            LET pair == resp.monthly_totals[i]
                rows == {r \in RowsOf(resp.user) :
                            <<r.date.year, r.date.month>> = LabelMonth(pair.label)}
            IN  pair.total = Sum(AmountsOf(rows))

\* C2: the monthly totals of a dashboard page have exactly one pair per
\* distinct calendar month among the user's expense dates, labelled
\* YYYY-MM, in ascending order of month, and each total is the sum of the
\* amounts of the user's expenses in that month.
MonthlyTotalsPerMonth == MonthlyPairsPerMonth /\ MonthlyTotalsSum(ExactSum)

\* what holds of the code instead: the same, each total being the
\* binary64 sum of the month's amounts in id order
MonthlyTotalsRounded == MonthlyPairsPerMonth /\ MonthlyTotalsSum(FloatSum)

CategoriesOf(uid) == {r.category : r \in RowsOf(uid)}

\* one pair per distinct category string of the user's expenses
CategoryPairsPerString ==
    resp.route = "dashboard" =>
        LET pairs == resp.category_totals
        IN  /\ Len(pairs) = Cardinality(CategoriesOf(resp.user))
            /\ {pairs[i].label : i \in 1..Len(pairs)} = CategoriesOf(resp.user)

\* every category total is the sum, under a way of adding, of the amounts
\* of the user's expenses with exactly that category string
CategoryTotalsSum(Sum(_)) ==
    resp.route = "dashboard" =>
        \A i \in 1..Len(resp.category_totals) :
            LET pair == resp.category_totals[i]
                rows == {r \in RowsOf(resp.user) : r.category = pair.label}
            IN  pair.total = Sum(AmountsOf(rows))

\* C3: the category totals of a dashboard page have exactly one pair per
\* distinct category string among the user's expenses (strings that differ
\* in case or whitespace are distinct), and each total is the sum of the
\* amounts of the user's expenses with exactly that string.
CategoryTotalsPerString == CategoryPairsPerString /\ CategoryTotalsSum(ExactSum)

\* what holds of the code instead, likewise
CategoryTotalsRounded == CategoryPairsPerString /\ CategoryTotalsSum(FloatSum)

\* C4: a dashboard request of a user who owns no expense answers with the
\* page (no error), both sequences empty and pie_img None, and writes no
\* category chart: the file at the pie path is as it was.
EmptyDashboard ==
    [][(resp'.route = "dashboard" /\ RowsOf(resp'.user) = {}) =>
          /\ resp'.status = 200
          /\ resp'.monthly_totals = <<>>
          /\ resp'.category_totals = <<>>
          /\ resp'.pie_img = None
          /\ files'[PiePath] = files[PiePath]]_vars

\* a page of a user without expenses, while the other user owns some and
\* has had the pie chart drawn
EmptyDashboardReached ==
    /\ resp.route = "dashboard"
    /\ RowsOf(resp.user) = {}
    /\ resp.pie_img = None
    /\ expenses # {}
    /\ files[PiePath].exists

\* C8: a dashboard request of one user never replaces a chart that the
\* page of another user shows: when the last response is u's dashboard page
\* and the request is a dashboard request of another user, the images at
\* the paths u's page references stay as they are.
ChartsPerUser ==
    [][(/\ resp.route = "dashboard"
        /\ resp'.route = "dashboard"
        /\ resp'.user # resp.user) =>
          /\ files'[resp.trends_img] = files[resp.trends_img]
          /\ resp.pie_img # None => files'[resp.pie_img] = files[resp.pie_img]]_vars

(***************************************************************************)
(* Properties of the store (checked under Spec and SpecAuth)               *)
(***************************************************************************)
\* user uid owns a row with id eid
Owns(uid, eid) == \E r \in expenses : r.id = eid /\ r.user_id = uid

\* C5: a delete_expense request of user u for an id that names no expense,
\* or an expense of another user, leaves every user and every expense as
\* they were and answers with the notice 'Expense not found.' and a
\* redirect to the dashboard, not with an error.
DeleteNotFound ==
    [][\A u \in UserIds, e \in ExpenseIds :
          (~Owns(u, e) /\ DeleteExpense(u, e)) =>
              /\ users' = users
              /\ expenses' = expenses
              /\ resp'.status = 302
              /\ resp'.flash = "Expense not found."
              /\ resp'.target = "dashboard"]_vars

\* a delete request of a user who owns an expense has been answered with
\* the notice while another user owns an expense too
DeleteNotFoundReached ==
    /\ resp.route = "delete_expense"
    /\ resp.flash = "Expense not found."
    /\ \E r \in expenses : r.user_id # resp.user
    /\ RowsOf(resp.user) # {}

\* C6: a successful edit_expense POST for id e leaves every expense with
\* another id, every user, and the id and user_id of expense e as they
\* were: only the category, amount, date and description of e may change.
EditIsolation ==
    [][\A u \in UserIds, e \in ExpenseIds, f \in ExpenseForms :
          (/\ resp'.flash = "Expense updated successfully!"
           /\ resp'.user = u
           /\ EditExpense(u, e, "POST", f)) =>
              /\ users' = users
              /\ \A r \in expenses : r.id # e => r \in expenses'
              /\ \A q \in expenses' : q.id # e => q \in expenses
              /\ \A r \in expenses : r.id = e =>
                    /\ Cardinality({q \in expenses' : q.id = e}) = 1
                    /\ \A q \in expenses' : q.id = e => q.user_id = r.user_id]_vars

\* an edit has changed one of two expenses of the same user
EditIsolationReached ==
    /\ resp.route = "edit_expense"
    /\ resp.flash = "Expense updated successfully!"
    /\ Cardinality(RowsOf(resp.user)) = 2
    /\ \E r, q \in RowsOf(resp.user) : r.category # q.category

ExpenseRoutes == {"add_expense", "edit_expense", "delete_expense"}

\* C7: an expense is created with the user_id of the requesting user; an
\* expense changes or is removed only in a request of the user its user_id
\* names; an edit_expense request, GET or POST, aimed at an expense of
\* another user leaves the store as it was and answers with the notice
\* 'Expense not found.'.
OwnerOnlyMutation ==
    [][/\ expenses' # expenses => resp'.route \in ExpenseRoutes
       /\ \A q \in expenses' \ expenses : q.user_id = resp'.user
       /\ \A r \in expenses \ expenses' : r.user_id = resp'.user
       /\ \A u \in UserIds, e \in ExpenseIds, f \in ExpenseForms \cup {NoForm} :
             (/\ \E r \in expenses : r.id = e /\ r.user_id # u
              /\ resp'.route = "edit_expense"
              /\ EditExpense(u, e, "GET", f) \/ EditExpense(u, e, "POST", f)) =>
                 /\ users' = users
                 /\ expenses' = expenses
                 /\ resp'.status = 302
                 /\ resp'.flash = "Expense not found."]_vars

\* an edit request has been answered with the notice while each of the
\* two users owns an expense
OwnerOnlyMutationReached ==
    /\ resp.route = "edit_expense"
    /\ resp.flash = "Expense not found."
    /\ RowsOf(1) # {}
    /\ RowsOf(2) # {}

\* C9: every expense's user_id is the id of a user in the users table.
ReferentialIntegrity == \A r \in expenses : \E u \in users : u.id = r.user_id

\* both users own an expense and neither is logged in any more
ReferentialIntegrityReached ==
    /\ \E r, q \in expenses : r.user_id # q.user_id
    /\ sessions = {}
    /\ resp.route = "logout"

\* C10: no two user records have the same username; a register POST whose
\* username belongs to a stored user adds no record, leaves the stored
\* records (their credentials included) as they were and answers with the
\* notice 'Username already exists.'.
UniqueUsernames ==
    [][/\ \A a, b \in users' : a.username = b.username => a = b
       /\ \A n \in Usernames, p \in Passwords, s \in Salts :
             (/\ Register("POST", n, p, s)
              /\ \E a \in users : a.username = n) =>
                 /\ users' = users
                 /\ resp'.flash = "Username already exists."]_vars

\* a registration of a stored username has been refused while two users,
\* of different passwords, are stored
UniqueUsernamesReached ==
    /\ resp.route = "register"
    /\ resp.flash = "Username already exists."
    /\ Cardinality(users) = 2
    /\ \E a, b \in users : a.hashed_password.digest[2] # b.hashed_password.digest[2]
====
